---- MODULE Spec2Model ----
(***************************************************************************)
(* FlagHandler (src/unnamed/part_009): the registry of command flags that  *)
(* Oclif plugins contribute, with its conflict check, its merged lookup    *)
(* and its verification pass.                                              *)
(*                                                                         *)
(* The registry is a tree of plain JavaScript objects,                     *)
(*    _database[command][plugin] = { flags, verify },                      *)
(* indexed by strings the callers choose.  The model therefore keeps a     *)
(* heap of objects with own properties, a prototype link and the property  *)
(* order of Object.keys, and translates each statement of the handlers     *)
(* into reads and writes of that heap.                                     *)
(***************************************************************************)
EXTENDS Integers, Sequences, FiniteSets, TLC

VARIABLES
    names,       \* which alphabet the callers of this run use
    heap,        \* the objects reachable from the registry, by identity
    registered,  \* history: the addFlags calls that returned normally, in order
    last,        \* the last call: its operation, arguments and outcome
    mutations,   \* how many times a caller has changed an object it passed in
    dispatched   \* history (SpecLifecycle): a getFlags or verifyFlags call returned

vars == <<names, heap, registered, last, mutations, dispatched>>

(***************************************************************************)
(* Bounds of the model.                                                    *)
(***************************************************************************)
MaxRegs == 2
MaxFlags == 2
MaxMutations == 1

(***************************************************************************)
(* JavaScript values.                                                      *)
(***************************************************************************)
Undef == [t |-> "undefined", s |-> "", n |-> 0]
Null == [t |-> "null", s |-> "", n |-> 0]
Str(x) == [t |-> "string", s |-> x, n |-> 0]
Ref(i) == [t |-> "object", s |-> "", n |-> i]
Fn(i) == [t |-> "function", s |-> "", n |-> i]
Num(i) == [t |-> "number", s |-> "", n |-> i]
\* The object a `x || {}` expression creates when x is falsy: empty, and
\* dropped unless it is stored.
Fresh == [t |-> "object", s |-> "", n |-> 0]

\* typeof v
TypeOf(v) == IF v.t = "null" THEN "object" ELSE v.t

\* v in a boolean position (if (v), v || w)
Truthy(v) ==
    CASE v.t \in {"undefined", "null"} -> FALSE
      [] v.t = "string" -> v.s # ""
      [] v.t = "number" -> v.n # 0
      [] OTHER -> TRUE

\* Reading a property of null or undefined throws a TypeError.
Nullish(v) == v.t \in {"undefined", "null"}

(***************************************************************************)
(* Objects.  keys: the own property names in creation order; vals: their   *)
(* values; hidden: the own names that are not enumerable; proto: the       *)
(* prototype (0: none).                                                    *)
(***************************************************************************)
ObjectPrototype == 1
Database == 2
ArrayPrototype == 3

ProtoKey == "__proto__"

EmptyVals == [k \in {} |-> Undef]

NewObject == [keys |-> <<>>, vals |-> EmptyVals, hidden |-> {}, proto |-> ObjectPrototype]

\* Object.prototype as the handlers can see it: `constructor` is an own,
\* non-enumerable property; `__proto__` is its accessor, handled in Get/Set.
ObjectPrototypeObject ==
    [keys |-> <<"constructor">>,
     vals |-> [k \in {"constructor"} |-> Fn(0)],
     hidden |-> {"constructor"},
     proto |-> 0]

\* Array.prototype, and the array `[]`: `length` is an own, non-enumerable
\* property of both.
ArrayPrototypeObject ==
    [keys |-> <<"constructor", "length">>,
     vals |-> [k \in {"constructor", "length"} |-> IF k = "length" THEN Num(0) ELSE Fn(0)],
     hidden |-> {"constructor", "length"},
     proto |-> ObjectPrototype]

EmptyArray ==
    [keys |-> <<"length">>,
     vals |-> [k \in {"length"} |-> Num(0)],
     hidden |-> {"length"},
     proto |-> ArrayPrototype]

\* Array indices ("0", "1", ...) come first in Object.keys, in ascending order.
IndexValue == ("0" :> 0) @@ ("1" :> 1) @@ ("2" :> 2)

IsIndex(k) == k \in DOMAIN IndexValue

SeqRange(s) == {s[i] : i \in DOMAIN s}

HasOwn(h, i, k) == i # 0 /\ k \in DOMAIN h[i].vals

RECURSIVE Lookup(_, _, _)
Lookup(h, i, k) ==
    IF i = 0 THEN Undef
    ELSE IF k \in DOMAIN h[i].vals THEN h[i].vals[k]
    ELSE Lookup(h, h[i].proto, k)

RECURSIVE InChain(_, _, _)
InChain(h, i, j) ==
    IF i = 0 THEN FALSE
    ELSE IF i = j THEN TRUE
    ELSE InChain(h, h[i].proto, j)

\* The object a property read of v starts at: v itself, or the prototype that
\* a function, a string or a fresh object inherits from.
Holder(v) == IF v.t = "object" /\ v.n # 0 THEN v.n ELSE ObjectPrototype

\* v[k], for v that is neither null nor undefined
Get(h, v, k) ==
    IF k = ProtoKey
    THEN IF v.t = "object" /\ v.n # 0
         THEN IF h[v.n].proto = 0 THEN Null ELSE Ref(h[v.n].proto)
         ELSE Ref(ObjectPrototype)
    ELSE Lookup(h, Holder(v), k)

\* k in v, for an object or function v
In(h, k, v) ==
    \/ k = ProtoKey
    \/ \E i \in 1..Len(h) : InChain(h, Holder(v), i) /\ k \in DOMAIN h[i].vals

\* Object.keys(v), for v that is neither null nor undefined
OwnKeys(h, v) ==
    IF v.t # "object" \/ v.n = 0 THEN <<>>
    ELSE LET o == h[v.n]
             enum == SelectSeq(o.keys, LAMBDA k : k \notin o.hidden)
             idx == SortSeq(SelectSeq(enum, IsIndex),
                            LAMBDA a, b : IndexValue[a] < IndexValue[b])
             rest == SelectSeq(enum, LAMBDA k : ~IsIndex(k))
         IN  idx \o rest

\* o[k] = v on the heap object i: [heap, ok]; ok is FALSE when the
\* assignment throws a TypeError.
Set(h, i, k, v) ==
    IF k = ProtoKey
    THEN \* the setter of Object.prototype.__proto__
         IF v.t \notin {"object", "null"} THEN [heap |-> h, ok |-> TRUE]
         ELSE LET p == IF v.t = "null" THEN 0 ELSE v.n
              IN  IF p = h[i].proto THEN [heap |-> h, ok |-> TRUE]
                  ELSE IF i = ObjectPrototype \/ InChain(h, p, i)
                       THEN [heap |-> h, ok |-> FALSE]
                       ELSE [heap |-> [h EXCEPT ![i].proto = p], ok |-> TRUE]
    ELSE LET o == h[i]
             o2 == [o EXCEPT
                      !.keys = IF k \in DOMAIN o.vals THEN o.keys ELSE Append(o.keys, k),
                      !.vals = [x \in DOMAIN o.vals \cup {k} |->
                                   IF x = k THEN v ELSE o.vals[x]]]
         IN  [heap |-> [h EXCEPT ![i] = o2], ok |-> TRUE]

(***************************************************************************)
(* Errors.  kind names the throw statement; conflicts is the text of the   *)
(* conflict error, one entry per line that _checkFlagConflict appended.    *)
(***************************************************************************)
NoError == [kind |-> "none", conflicts |-> <<>>, by |-> 0]
Error(k) == [kind |-> k, conflicts |-> <<>>, by |-> 0]
TypeError == Error("TypeError")

\* `Flag '<flag>' from '<plugin>' already defined by '<owner>' plugin for
\* '<command>' command.`
FlagLine(newFlag, newPluginName, pluginName, commandName) ==
    [kind |-> "flag", char |-> "", flag |-> newFlag, plugin |-> newPluginName,
     ownerFlag |-> "", owner |-> pluginName, command |-> commandName]

\* `Alias '<char>' of flag '<flag>' from '<plugin>' already defined by
\* '<ownerFlag>' flag in '<owner>' for '<command>' command.`
AliasLine(newFlagChar, newFlag, newPluginName, pluginFlagKey, pluginName, commandName) ==
    [kind |-> "alias", char |-> newFlagChar, flag |-> newFlag, plugin |-> newPluginName,
     ownerFlag |-> pluginFlagKey, owner |-> pluginName, command |-> commandName]

(***************************************************************************)
(* _checkFlagConflict                                                      *)
(***************************************************************************)
\* x || {}
OrEmpty(v) == IF Truthy(v) THEN v ELSE Fresh

\* pluginNames.includes(newPluginName)
AlreadyAdded(pluginNames, newPluginName) == newPluginName \in SeqRange(pluginNames)

\* typeof newPluginFlags[newFlag].char === 'string' ? ....char : null
NewFlagChar(h, flagEntry) ==
    LET c == Get(h, flagEntry, "char")
    IN  IF TypeOf(c) = "string" THEN c ELSE Null

\* newFlag in pluginFlags
FlagDefined(h, newFlag, pluginFlags) == In(h, newFlag, pluginFlags)

\* typeof pluginFlagEntry.char === 'string' && pluginFlagEntry.char === newFlagChar
AliasDefined(h, pluginFlagEntry, newFlagChar) ==
    LET c == Get(h, pluginFlagEntry, "char")
    IN  TypeOf(c) = "string" /\ c = newFlagChar

\* if (newFlagChar !== null): an empty alias counts as an alias.
HasAliasNotNull(newFlagChar) == newFlagChar # Null

\* if (newFlagChar)
HasAlias(newFlagChar) == Truthy(newFlagChar)

\* for (const pluginFlagKey of pluginFlagKeys): acc is [msg, thrown]
RECURSIVE CheckAliases(_, _, _, _, _, _, _, _, _)
CheckAliases(h, acc, commandName, newPluginName, newFlag, newFlagChar, pluginName, pluginFlags, pluginFlagKeys) ==
    IF acc.thrown \/ pluginFlagKeys = <<>> THEN acc
    ELSE LET pluginFlagKey == Head(pluginFlagKeys)
             pluginFlagEntry == Get(h, pluginFlags, pluginFlagKey)
             acc2 ==
                 IF Nullish(pluginFlagEntry) THEN [acc EXCEPT !.thrown = TRUE]
                 ELSE IF AliasDefined(h, pluginFlagEntry, newFlagChar)
                      THEN [acc EXCEPT !.msg = Append(@,
                               AliasLine(newFlagChar.s, newFlag, newPluginName,
                                         pluginFlagKey, pluginName, commandName))]
                      ELSE acc
         IN  CheckAliases(h, acc2, commandName, newPluginName, newFlag, newFlagChar,
                          pluginName, pluginFlags, Tail(pluginFlagKeys))

\* for (const pluginName of pluginNames)
RECURSIVE CheckPlugins(_, _, _, _, _, _, _, _)
CheckPlugins(h, acc, commandName, newPluginName, newFlag, newFlagChar, plugins, pluginNames) ==
    IF acc.thrown \/ pluginNames = <<>> THEN acc
    ELSE LET pluginName == Head(pluginNames)
             entry == Get(h, plugins, pluginName)
             acc2 ==
                 IF Nullish(entry) THEN [acc EXCEPT !.thrown = TRUE]
                 ELSE LET pluginFlags == OrEmpty(Get(h, entry, "flags"))
                      IN  IF TypeOf(pluginFlags) \notin {"object", "function"}
                          THEN [acc EXCEPT !.thrown = TRUE]
                          ELSE LET acc1 ==
                                       IF FlagDefined(h, newFlag, pluginFlags)
                                       THEN [acc EXCEPT !.msg = Append(@,
                                                FlagLine(newFlag, newPluginName,
                                                         pluginName, commandName))]
                                       ELSE acc
                               IN  IF HasAlias(newFlagChar)
                                   THEN CheckAliases(h, acc1, commandName, newPluginName,
                                                     newFlag, newFlagChar, pluginName,
                                                     pluginFlags, OwnKeys(h, pluginFlags))
                                   ELSE acc1
         IN  CheckPlugins(h, acc2, commandName, newPluginName, newFlag, newFlagChar,
                          plugins, Tail(pluginNames))

\* for (const newFlag of newFlags)
RECURSIVE CheckNewFlags(_, _, _, _, _, _, _, _)
CheckNewFlags(h, acc, commandName, newPluginName, newPluginFlags, plugins, pluginNames, newFlags) ==
    IF acc.thrown \/ newFlags = <<>> THEN acc
    ELSE LET newFlag == Head(newFlags)
             flagEntry == Get(h, newPluginFlags, newFlag)
             acc2 ==
                 IF Nullish(flagEntry) THEN [acc EXCEPT !.thrown = TRUE]
                 ELSE CheckPlugins(h, acc, commandName, newPluginName, newFlag,
                                   NewFlagChar(h, flagEntry), plugins, pluginNames)
         IN  CheckNewFlags(h, acc2, commandName, newPluginName, newPluginFlags,
                           plugins, pluginNames, Tail(newFlags))

\* The error _checkFlagConflict throws, or NoError.
CheckFlagConflict(h, commandName, newPluginName, newPluginFlags) ==
    LET plugins == OrEmpty(Get(h, Ref(Database), commandName))
        pluginNames == OwnKeys(h, plugins)
    IN  IF AlreadyAdded(pluginNames, newPluginName) THEN Error("alreadyAdded")
        ELSE IF Nullish(newPluginFlags) THEN TypeError
        ELSE LET acc == CheckNewFlags(h, [msg |-> <<>>, thrown |-> FALSE],
                                      commandName, newPluginName, newPluginFlags,
                                      plugins, pluginNames,
                                      OwnKeys(h, newPluginFlags))
             IN  IF acc.thrown THEN TypeError
                 ELSE IF acc.msg # <<>>
                      THEN [kind |-> "conflicts", conflicts |-> acc.msg, by |-> 0]
                      ELSE NoError

(***************************************************************************)
(* The argument of a handler: the object the caller passes on the          *)
(* eventbus.  t is its type; a property the caller did not give is Undef   *)
(* and is then read through Object.prototype.                              *)
(***************************************************************************)
Entry(c, p, f, v) == [t |-> "object", command |-> c, plugin |-> p, flags |-> f, verify |-> v]

NoArg == [t |-> "undefined", command |-> Undef, plugin |-> Undef, flags |-> Undef,
          verify |-> Undef]

\* newEntry.<k>
Field(h, a, k) == IF a[k] # Undef THEN a[k] ELSE Lookup(h, ObjectPrototype, k)

\* An object literal of flags, { name: { char }, ... }, as the caller builds
\* it: one object per flag, then the mapping, appended to the heap.  lit is a
\* sequence of [name, char]; a char of Undef is a flag without `char`.
FlagObject(char) ==
    IF char = Undef THEN NewObject
    ELSE [NewObject EXCEPT !.keys = <<"char">>, !.vals = [k \in {"char"} |-> char]]

FlagsObject(lit, base) ==
    [NewObject EXCEPT
        !.keys = [i \in 1..Len(lit) |-> lit[i].name],
        !.vals = [k \in {lit[i].name : i \in 1..Len(lit)} |->
                     Ref(base + (CHOOSE i \in 1..Len(lit) : lit[i].name = k))]]

AllocFlags(h, lit) ==
    h \o [i \in 1..Len(lit) |-> FlagObject(lit[i].char)] \o <<FlagsObject(lit, Len(h))>>

\* The objects the caller built for a call that threw are dropped when the
\* registry holds no reference to them.
Refers(o, n) ==
    \/ o.proto > n
    \/ \E k \in DOMAIN o.vals : o.vals[k].t = "object" /\ o.vals[k].n > n

Collect(h, n) ==
    IF \E i \in 1..n : Refers(h[i], n) THEN h ELSE SubSeq(h, 1, n)

(***************************************************************************)
(* addFlags                                                                *)
(***************************************************************************)
\* Object.assign(newFlags, {}): the target, with nothing copied into it.
AssignedFlags(newFlags) == newFlags

\* { flags: Object.assign(newFlags, {}), verify: newVerify }
EntryObject(newFlags, newVerify) ==
    [NewObject EXCEPT
        !.keys = <<"flags", "verify">>,
        !.vals = [k \in {"flags", "verify"} |->
                     IF k = "flags" THEN AssignedFlags(newFlags) ELSE newVerify]]

\* Lines 79-86: [heap, err]
StoreEntry(h, commandName, pluginName, newFlags, newVerify) ==
    LET found == Get(h, Ref(Database), commandName)
        h1 == IF Truthy(found) THEN h ELSE Append(h, NewObject)
        plugins == IF Truthy(found) THEN found ELSE Ref(Len(h1))
        h2 == Append(h1, EntryObject(newFlags, newVerify))
    IN  IF plugins.t # "object" THEN [heap |-> h2, err |-> TypeError]
        ELSE LET s1 == Set(h2, plugins.n, pluginName, Ref(Len(h2)))
             IN  IF ~s1.ok THEN [heap |-> s1.heap, err |-> TypeError]
                 ELSE LET s2 == Set(s1.heap, Database, commandName, plugins)
                      IN  IF ~s2.ok THEN [heap |-> s1.heap, err |-> TypeError]
                          ELSE [heap |-> s2.heap, err |-> NoError]

\* Mutant: only an absent verify passes; null is taken for a value.
VerifyInvalidUnlessAbsent(verify) == verify.t # "undefined" /\ TypeOf(verify) # "function"

\* newEntry.verify !== null && newEntry.verify !== undefined, and
\* typeof newEntry.verify !== 'function'
VerifyInvalid(verify) == ~Nullish(verify) /\ TypeOf(verify) # "function"

\* Mutant: the entry is stored before the conflict check has passed.
addFlagsStoreFirst(h, arg) ==
    IF arg.t = "object" /\ arg.command.t = "string" /\ arg.plugin.t = "string"
       /\ arg.flags.t = "object" /\ arg.verify.t \in {"undefined", "function"}
    THEN LET err == CheckFlagConflict(h, arg.command.s, arg.plugin.s, arg.flags)
             st == StoreEntry(h, arg.command.s, arg.plugin.s, arg.flags,
                              IF arg.verify.t = "function" THEN arg.verify ELSE Null)
         IN  [heap |-> st.heap, err |-> IF err.kind # "none" THEN err ELSE st.err]
    ELSE [heap |-> h, err |-> Error("commandNotString")]

\* addFlags(newEntry): [heap, err]
addFlags(h, arg) ==
    LET newEntry == IF arg.t = "undefined" THEN [NoArg EXCEPT !.t = "object"] ELSE arg
    IN  IF newEntry.t \notin {"object", "null"}
        THEN [heap |-> h, err |-> Error("newEntryNotObject")]
        ELSE IF newEntry.t = "null" THEN [heap |-> h, err |-> TypeError]
        ELSE LET command == Field(h, newEntry, "command")
                 plugin == Field(h, newEntry, "plugin")
                 flags == Field(h, newEntry, "flags")
                 verify == Field(h, newEntry, "verify")
             IN  IF TypeOf(command) # "string"
                 THEN [heap |-> h, err |-> Error("commandNotString")]
                 ELSE IF TypeOf(plugin) # "string"
                 THEN [heap |-> h, err |-> Error("pluginNotString")]
                 ELSE IF TypeOf(flags) # "object"
                 THEN [heap |-> h, err |-> Error("flagsNotObject")]
                 ELSE IF VerifyInvalid(verify)
                 THEN [heap |-> h, err |-> Error("verifyNotFunction")]
                 ELSE LET newVerify == IF TypeOf(verify) = "function" THEN verify ELSE Null
                          err == CheckFlagConflict(h, command.s, plugin.s, flags)
                      IN  IF err.kind # "none" THEN [heap |-> h, err |-> err]
                          ELSE StoreEntry(h, command.s, plugin.s, flags, newVerify)

(***************************************************************************)
(* getFlags                                                                *)
(***************************************************************************)
\* Object.assign(target, source) on the heap object target: [heap, ok]
RECURSIVE AssignKeys(_, _, _, _)
AssignKeys(h, target, source, keys) ==
    IF keys = <<>> THEN [heap |-> h, ok |-> TRUE]
    ELSE LET s1 == Set(h, target, Head(keys), Get(h, source, Head(keys)))
         IN  IF ~s1.ok THEN s1 ELSE AssignKeys(s1.heap, target, source, Tail(keys))

ObjectAssign(h, target, source) ==
    IF Nullish(source) THEN [heap |-> h, ok |-> TRUE]
    ELSE AssignKeys(h, target, source, OwnKeys(h, source))

\* Mutant: what has been combined so far is also assigned to the flags object
\* of the plugin at hand.
RECURSIVE CombineFlagsBothWays(_, _, _, _)
CombineFlagsBothWays(h, allFlags, plugins, pluginNames) ==
    IF pluginNames = <<>> THEN [heap |-> h, ok |-> TRUE]
    ELSE LET entry == Get(h, plugins, Head(pluginNames))
         IN  IF Nullish(entry) THEN [heap |-> h, ok |-> FALSE]
             ELSE LET flags == Get(h, entry, "flags")
                      s1 == ObjectAssign(h, allFlags, flags)
                      s2 == IF s1.ok /\ flags.t = "object" /\ flags.n # 0
                            THEN ObjectAssign(s1.heap, flags.n, Ref(allFlags))
                            ELSE s1
                  IN  IF ~s2.ok THEN s2
                      ELSE CombineFlagsBothWays(s2.heap, allFlags, plugins, Tail(pluginNames))

\* for (const pluginName of pluginNames) Object.assign(allFlags, plugins[pluginName].flags)
RECURSIVE CombineFlags(_, _, _, _)
CombineFlags(h, allFlags, plugins, pluginNames) ==
    IF pluginNames = <<>> THEN [heap |-> h, ok |-> TRUE]
    ELSE LET entry == Get(h, plugins, Head(pluginNames))
         IN  IF Nullish(entry) THEN [heap |-> h, ok |-> FALSE]
             ELSE LET s1 == ObjectAssign(h, allFlags, Get(h, entry, "flags"))
                  IN  IF ~s1.ok THEN s1
                      ELSE CombineFlags(s1.heap, allFlags, plugins, Tail(pluginNames))

\* getFlags(query): [err, result, heap]; result is the object allFlags that
\* is returned (NewObject when the call throws), heap the objects of the
\* registry after the call.
getFlags(h, arg) ==
    LET query == IF arg.t = "undefined" THEN [NoArg EXCEPT !.t = "object"] ELSE arg
    IN  IF query.t \notin {"object", "null"}
        THEN [err |-> Error("queryNotObject"), result |-> NewObject, heap |-> h]
        ELSE IF query.t = "null" THEN [err |-> TypeError, result |-> NewObject, heap |-> h]
        ELSE LET commandName == Field(h, query, "command")
             IN  IF TypeOf(commandName) # "string"
                 THEN [err |-> Error("commandNotString"), result |-> NewObject, heap |-> h]
                 ELSE LET plugins == OrEmpty(Get(h, Ref(Database), commandName.s))
                          pluginNames == OwnKeys(h, plugins)
                          hs == Append(h, NewObject)
                          out == CombineFlags(hs, Len(hs), plugins, pluginNames)
                          after == SubSeq(out.heap, 1, Len(h))
                      IN  IF ~out.ok
                          THEN [err |-> TypeError, result |-> NewObject, heap |-> after]
                          ELSE [err |-> NoError, result |-> out.heap[Len(hs)],
                                heap |-> after]

(***************************************************************************)
(* verifyFlags                                                             *)
(***************************************************************************)
\* verifyFunc(flags): the record of the call, and the error that leaves it.
\* throwers are the callbacks that throw on these flags.
Invocation(verifyFunc, flags, throwers) ==
    [fn |-> verifyFunc.n, flags |-> flags, threw |-> verifyFunc.n \in throwers]

Thrown(verifyFunc) == [kind |-> "callback", conflicts |-> <<>>, by |-> verifyFunc.n]

\* Mutant: an error thrown by a callback is caught and the loop goes on.
RECURSIVE InvokeVerifyCaught(_, _, _, _, _, _)
InvokeVerifyCaught(h, acc, flags, throwers, plugins, pluginNames) ==
    IF acc.err.kind = "TypeError" \/ pluginNames = <<>> THEN acc
    ELSE LET entry == Get(h, plugins, Head(pluginNames))
             acc2 ==
                 IF Nullish(entry) THEN [acc EXCEPT !.err = TypeError]
                 ELSE LET verifyFunc == Get(h, entry, "verify")
                      IN  IF TypeOf(verifyFunc) = "function"
                          THEN [acc EXCEPT !.calls = Append(@,
                                   Invocation(verifyFunc, flags, throwers))]
                          ELSE acc
         IN  InvokeVerifyCaught(h, acc2, flags, throwers, plugins, Tail(pluginNames))

\* for (const pluginName of pluginNames) { verifyFunc(flags) }: acc is
\* [calls, err].
RECURSIVE InvokeVerify(_, _, _, _, _, _)
InvokeVerify(h, acc, flags, throwers, plugins, pluginNames) ==
    IF acc.err.kind # "none" \/ pluginNames = <<>> THEN acc
    ELSE LET entry == Get(h, plugins, Head(pluginNames))
             acc2 ==
                 IF Nullish(entry) THEN [acc EXCEPT !.err = TypeError]
                 ELSE LET verifyFunc == Get(h, entry, "verify")
                      IN  IF TypeOf(verifyFunc) = "function"
                          THEN [calls |-> Append(acc.calls,
                                           Invocation(verifyFunc, flags, throwers)),
                                err |-> IF verifyFunc.n \in throwers
                                        THEN Thrown(verifyFunc)
                                        ELSE NoError]
                          ELSE acc
         IN  InvokeVerify(h, acc2, flags, throwers, plugins, Tail(pluginNames))

\* verifyFlags(query): [err, calls, heap]; the handler assigns to no object.
verifyFlags(h, arg, throwers) ==
    LET query == IF arg.t = "undefined" THEN [NoArg EXCEPT !.t = "object"] ELSE arg
    IN  IF query.t \notin {"object", "null"}
        THEN [err |-> Error("queryNotObject"), calls |-> <<>>, heap |-> h]
        ELSE IF query.t = "null" THEN [err |-> TypeError, calls |-> <<>>, heap |-> h]
        ELSE LET commandName == Field(h, query, "command")
                 flags == Field(h, query, "flags")
             IN  IF TypeOf(commandName) # "string"
                 THEN [err |-> Error("commandNotString"), calls |-> <<>>, heap |-> h]
                 ELSE IF TypeOf(flags) # "object"
                 THEN [err |-> Error("flagsNotObject"), calls |-> <<>>, heap |-> h]
                 ELSE LET plugins == OrEmpty(Get(h, Ref(Database), commandName.s))
                          pluginNames == OwnKeys(h, plugins)
                          out == InvokeVerify(h, [calls |-> <<>>, err |-> NoError], flags,
                                              throwers, plugins, pluginNames)
                      IN  [err |-> out.err, calls |-> out.calls, heap |-> h]

(***************************************************************************)
(* The callers.  Each run draws its command, plugin and flag names, its    *)
(* aliases and its verify arguments from one alphabet.  A caller makes a   *)
(* call, looks at its outcome (last) and goes on (Return).                 *)
(***************************************************************************)
Min(a, b) == IF a < b THEN a ELSE b

Pos(seq, x) == CHOOSE i \in 1..Len(seq) : seq[i] = x

\* The flag mappings a caller may pass: up to MaxFlags of the flags, in the
\* order given, each with one of the chars (Undef: no `char`).
Literals(flags, chars) ==
    { lit \in UNION { [1..k -> [name : SeqRange(flags), char : chars]] :
                        k \in 0..Min(MaxFlags, Len(flags)) } :
        \A i, j \in 1..Len(lit) :
            i < j => Pos(flags, lit[i].name) < Pos(flags, lit[j].name) }

\* extras: the other arguments the callers of the alphabet pass: "array" (an
\* empty array as flags), "null" (verify: null), "invalid" (InvalidEntries);
\* "inherited" marks the alphabet whose flag names include a name that
\* every object inherits from Object.prototype.
Alphabet(commands, plugins, flags, chars, verifies, keeps, extras) ==
    [commands |-> commands, plugins |-> plugins, literals |-> Literals(flags, chars),
     verifies |-> verifies, keeps |-> keeps, extras |-> extras]

Alphabets ==
    << Alphabet({"run"}, {"A", "B"}, <<"env", "extra">>,
               {Undef, Str("e"), Str("")}, {FALSE}, FALSE, {}),
      Alphabet({"run", "build"}, {"A", "B"}, <<"env">>,
               {Undef, Str("e")}, {FALSE, TRUE}, TRUE, {}),
      Alphabet({"run"}, {"A", "2", "1"}, <<"env", "extra">>,
               {Undef}, {FALSE, TRUE}, FALSE, {}),
      Alphabet({"A", ProtoKey}, {"A", ProtoKey}, <<"env">>,
               {Undef, Str("e")}, {FALSE, TRUE}, FALSE, {}),
      Alphabet({"A"}, {"A", "B", ProtoKey}, <<"env">>,
               {Undef}, {FALSE}, FALSE, {}),
      Alphabet({"run", ""}, {"A", ""}, <<>>,
               {Undef}, {FALSE}, FALSE, {"array", "null", "invalid"}),
      Alphabet({"run"}, {"A", "B"}, <<"env", "constructor">>,
               {Undef}, {FALSE, TRUE}, FALSE, {"inherited"}) >>

\* The alphabet of this run.
Names == Alphabets[names]

\* The object of parsed flags a dispatcher passes to verifyFlags.
Parsed(x) == [t |-> "object", s |-> x, n |-> 0]

\* Further calls that break preconditions of addFlags: other types of
\* arguments, and several violations in one call.
InvalidEntries ==
    { Entry(Num(1), Str("A"), Fresh, Undef),
      Entry(Str("run"), Num(1), Fresh, Undef),
      Entry(Str("run"), Str("A"), Num(1), Undef),
      Entry(Str("run"), Str("A"), Fn(0), Undef),
      Entry(Str("run"), Str("A"), Fresh, Num(1)),
      Entry(Str("run"), Str("A"), Fresh, Fresh),
      Entry(Undef, Undef, Undef, Str("x")),
      Entry(Str("run"), Undef, Undef, Str("x")),
      Entry(Str("run"), Str("A"), Undef, Str("x")),
      Entry(Str("run"), Str("A"), Null, Str("x")),
      Entry(Str(""), Undef, Fresh, Undef),
      Entry(Str("run"), Str(""), Undef, Undef) }

\* Calls that break a precondition of addFlags.
MalformedEntries(a) ==
    { NoArg, [NoArg EXCEPT !.t = "string"], [NoArg EXCEPT !.t = "null"],
      Entry(Undef, Str("A"), Fresh, Undef),
      Entry(Str("run"), Undef, Fresh, Undef),
      Entry(Str("run"), Str("A"), Undef, Undef),
      Entry(Str("run"), Str("A"), Str("x"), Undef),
      Entry(Str("run"), Str("A"), Fresh, Str("x")) }
    \cup { Entry(Str(c), Str(p), Null, Undef) : c \in a.commands, p \in a.plugins }
    \cup (IF "invalid" \in a.extras THEN InvalidEntries ELSE {})

Call(op, arg, lit, err, result, calls) ==
    [op |-> op, arg |-> arg, lit |-> lit, err |-> err, result |-> result, calls |-> calls,
     trace |-> <<>>]

\* The same with the events a dispatcher run went through, in order.
Traced(call, trace) == [call EXCEPT !.trace = trace]

\* An event of a dispatcher run: a request on the eventbus ("get",
\* "verify"), a run of the host parser ("parse"), or the return of the
\* flags to the command ("return").
Event(ev, flags) == [ev |-> ev, flags |-> flags]

Idle == Call("none", NoArg, <<>>, NoError, NewObject, <<>>)

\* The heap of a handler on which nothing has been registered.
FreshHandler == <<ObjectPrototypeObject, NewObject, ArrayPrototypeObject>>

\* The alphabets with flag names inherited from Object.prototype.
Inherited == {n \in DOMAIN Alphabets : "inherited" \in Alphabets[n].extras}

\* A new handler, and callers that draw from one of the alphabets given.
InitWith(alphabets) ==
    /\ names \in alphabets
    /\ heap = FreshHandler
    /\ registered = <<>>
    /\ last = Idle
    /\ mutations = 0
    /\ dispatched = FALSE

Init == InitWith(DOMAIN Alphabets \ Inherited)

InitInherited == InitWith(Inherited)

\* The shapes of the flags argument for a literal: the object literal, or
\* `[]` in place of `{}`.
Shapes(lit) ==
    {"object"} \cup (IF lit = <<>> /\ "array" \in Names.extras THEN {"array"} ELSE {})

\* The verify arguments: a function of the plugin's own, or none (absent or null).
VerifyArgs(withVerify) ==
    IF withVerify THEN {Fn(Len(registered) + 1)}
    ELSE {Undef} \cup (IF "null" \in Names.extras THEN {Null} ELSE {})

\* A plugin calls addFlags with a flags literal it has just built.
AddFlags ==
    /\ last = Idle
    /\ \E c \in Names.commands, p \in Names.plugins, lit \in Names.literals,
          withVerify \in Names.verifies :
      \E shape \in Shapes(lit), v \in VerifyArgs(withVerify) :
        LET h0 == IF shape = "array" THEN Append(heap, EmptyArray)
                  ELSE AllocFlags(heap, lit)
            arg == Entry(Str(c), Str(p), Ref(Len(h0)), v)
            out == addFlags(h0, arg)
            ok == out.err.kind = "none"
        IN  /\ ok => Len(registered) < MaxRegs
            /\ heap' = IF ok THEN out.heap ELSE Collect(out.heap, Len(heap))
            /\ registered' =
                   IF ok THEN Append(registered,
                                     [command |-> c, plugin |-> p, lit |-> lit,
                                      flags |-> Len(h0), verify |-> v])
                   ELSE registered
            /\ last' = Call("addFlags", arg, lit, out.err, NewObject, <<>>)
            /\ UNCHANGED <<names, mutations, dispatched>>

\* A plugin calls addFlags with an argument that is not a well-formed entry.
AddFlagsMalformed ==
    /\ last = Idle
    /\ \E arg \in MalformedEntries(Names) :
        LET out == addFlags(heap, arg)
        IN  /\ out.err.kind # "none"
            /\ heap' = Collect(out.heap, Len(heap))
            /\ last' = Call("addFlags", arg, <<>>, out.err, NewObject, <<>>)
            /\ UNCHANGED <<names, registered, mutations, dispatched>>

GetFlagsCall ==
    /\ last = Idle
    /\ \E arg \in {Entry(Str(c), Undef, Undef, Undef) : c \in Names.commands} \cup {NoArg} :
        LET out == getFlags(heap, arg)
        IN  /\ heap' = out.heap
            /\ last' = Call("getFlags", arg, <<>>, out.err, out.result, <<>>)
            /\ UNCHANGED <<names, registered, mutations>>

GetFlags == GetFlagsCall /\ UNCHANGED dispatched

VerifyFlagsCall ==
    /\ last = Idle
    /\ \E c \in Names.commands, thrower \in 0..Len(registered) :
        LET arg == Entry(Str(c), Undef, Parsed("parsed"), Undef)
            out == verifyFlags(heap, arg, {thrower})
        IN  /\ heap' = out.heap
            /\ last' = Call("verifyFlags", arg, <<>>, out.err, NewObject, out.calls)
            /\ UNCHANGED <<names, registered, mutations>>

VerifyFlags == VerifyFlagsCall /\ UNCHANGED dispatched

\* The same calls in a run that records that the dispatch phase has begun:
\* a getFlags or verifyFlags call has returned normally.
DispatchGetFlags == GetFlagsCall /\ dispatched' = (dispatched \/ last'.err.kind = "none")

DispatchVerifyFlags == VerifyFlagsCall /\ dispatched' = (dispatched \/ last'.err.kind = "none")

\* The caller has seen the outcome of its call.
Return ==
    /\ last # Idle
    /\ last' = Idle
    /\ UNCHANGED <<names, heap, registered, mutations, dispatched>>

\* A caller that kept the flags object it registered (Names.keeps) changes
\* it afterwards: it adds a flag, ...
CallerAddsFlag ==
    /\ last = Idle
    /\ Names.keeps
    /\ mutations < MaxMutations
    /\ \E r \in 1..Len(registered), lit \in Names.literals :
        /\ Len(lit) = 1
        /\ ~HasOwn(heap, registered[r].flags, lit[1].name)
        /\ heap' = Set(Append(heap, FlagObject(lit[1].char)), registered[r].flags,
                       lit[1].name, Ref(Len(heap) + 1)).heap
    /\ mutations' = mutations + 1
    /\ UNCHANGED <<names, registered, last, dispatched>>

\* delete flags[k]
Delete(h, i, k) ==
    [h EXCEPT ![i] = [@ EXCEPT
        !.keys = SelectSeq(@, LAMBDA x : x # k),
        !.vals = [x \in DOMAIN @ \ {k} |-> @[x]]]]

\* ... deletes a flag, ...
CallerDeletesFlag ==
    /\ last = Idle
    /\ Names.keeps
    /\ mutations < MaxMutations
    /\ \E r \in 1..Len(registered) :
        \E k \in DOMAIN heap[registered[r].flags].vals :
            heap' = Delete(heap, registered[r].flags, k)
    /\ mutations' = mutations + 1
    /\ UNCHANGED <<names, registered, last, dispatched>>

\* ... or gives a flag another alias.
CallerChangesAlias ==
    /\ last = Idle
    /\ Names.keeps
    /\ mutations < MaxMutations
    /\ \E r \in 1..Len(registered), lit \in Names.literals :
        /\ Len(lit) = 1
        /\ lit[1].char # Undef
        /\ HasOwn(heap, registered[r].flags, lit[1].name)
        /\ LET flag == heap[registered[r].flags].vals[lit[1].name]
           IN  /\ Get(heap, flag, "char") # lit[1].char
               /\ heap' = Set(heap, flag.n, "char", lit[1].char).heap
    /\ mutations' = mutations + 1
    /\ UNCHANGED <<names, registered, last, dispatched>>

\* The caller of getFlags holds the object that getFlags returned.
HoldsResult == last.op = "getFlags" /\ last.err.kind = "none"

\* A caller changes the mapping it got from getFlags: it adds a key, ...
ReaderAddsKey ==
    /\ HoldsResult
    /\ mutations < MaxMutations
    /\ "added" \notin DOMAIN last.result.vals
    /\ LET r == last.result
       IN  last' = [last EXCEPT !.result =
                       [r EXCEPT !.keys = Append(r.keys, "added"),
                                 !.vals = [x \in DOMAIN r.vals \cup {"added"} |->
                                              IF x = "added" THEN Fresh ELSE r.vals[x]]]]
    /\ mutations' = mutations + 1
    /\ UNCHANGED <<names, heap, registered, dispatched>>

\* ... deletes a key, ...
ReaderDeletesKey ==
    /\ HoldsResult
    /\ mutations < MaxMutations
    /\ \E k \in DOMAIN last.result.vals :
        LET r == last.result
        IN  last' = [last EXCEPT !.result =
                        [r EXCEPT !.keys = SelectSeq(r.keys, LAMBDA x : x # k),
                                  !.vals = [x \in DOMAIN r.vals \ {k} |-> r.vals[x]]]]
    /\ mutations' = mutations + 1
    /\ UNCHANGED <<names, heap, registered, dispatched>>

\* ... or replaces a field of a flag in it, as the loop of loadDynamicFlags
\* does with `v.default = ...` for each value v of the mapping.
ReaderReplacesField ==
    /\ HoldsResult
    /\ mutations < MaxMutations
    /\ \E k \in DOMAIN last.result.vals :
        LET v == last.result.vals[k]
        IN  /\ v.t = "object" /\ v.n # 0
            /\ heap' = Set(heap, v.n, "default", Str("default")).heap
    /\ mutations' = mutations + 1
    /\ UNCHANGED <<names, registered, last, dispatched>>

(***************************************************************************)
(* The command dispatcher (src/src/command/DynamicCommand.js).  A command  *)
(* class names the commands whose flags it takes in flagCommands; the      *)
(* dispatcher asks the registry for them on the eventbus, which calls the  *)
(* handler wired to the event with the object given.                       *)
(***************************************************************************)
\* { commands } and { commands, flags }: the objects the dispatcher sends.
\* They have a property `commands` and no property `command`.
DispatchQuery(commands, flags) ==
    Entry(Undef, Undef, flags, Undef) @@ [commands |-> commands]

\* for (const v of Object.values(flags)) if (typeof v.default === 'function')
\* { v.default = v.default(defaultData); ... }: the heap after the loop.
RECURSIVE SanitizeDefaults(_, _, _)
SanitizeDefaults(h, flags, keys) ==
    IF keys = <<>> THEN h
    ELSE LET v == flags.vals[Head(keys)]
             h1 == IF ~Nullish(v) /\ TypeOf(Get(h, v, "default")) = "function"
                   THEN Set(h, v.n, "default", Str("default")).heap
                   ELSE h
         IN  SanitizeDefaults(h1, flags, Tail(keys))

\* DynamicCommand.loadDynamicFlags for a command class whose flagCommands
\* is [c]: the flags come from the `flaghandler:get` event.
LoadDynamicFlags ==
    /\ last = Idle
    /\ \E c \in Names.commands :
        LET query == DispatchQuery(<<c>>, Undef)
            got == getFlags(heap, query)
        IN  /\ heap' = IF got.err.kind # "none" THEN got.heap
                       ELSE SanitizeDefaults(got.heap, got.result, got.result.keys)
            /\ last' = Call("loadDynamicFlags", query, <<>>, got.err, got.result, <<>>)
    /\ UNCHANGED <<names, registered, mutations, dispatched>>

\* DynamicCommand._loadEnvFile(existingFlags): without an `env` flag the
\* existing flags; with one, this.error(...) when the file is not found or
\* dotenv reports an error, otherwise the flags of a second parse.
LoadEnvFile(existingFlags, env) ==
    IF env = "none" THEN [err |-> NoError, flags |-> existingFlags, trace |-> <<>>]
    ELSE IF env \in {"missing", "error"}
    THEN [err |-> Error("CLIError"), flags |-> Undef, trace |-> <<>>]
    ELSE [err |-> NoError, flags |-> Parsed("reparsed"),
          trace |-> <<Event("parse", Parsed("reparsed"))>>]

\* The outcomes of loading an env file: no `env` flag, file not found,
\* dotenv error, file loaded.
EnvFiles == {"none", "missing", "error", "loaded"}

\* DynamicCommand._initializeFlags(commands) with commands = [c]: the flags
\* come from `flaghandler:get`, are parsed, the working directory is checked
\* (cwdExists), the env file is loaded, and the flags go to
\* `flaghandler:verify` before they are returned.
InitializeFlags ==
    /\ last = Idle
    /\ \E c \in Names.commands, cwdExists \in BOOLEAN, env \in EnvFiles,
          thrower \in 0..Len(registered) :
        LET query == DispatchQuery(<<c>>, Undef)
            got == getFlags(heap, query)
            parsed == Parsed("parsed")
            loaded == LoadEnvFile(parsed, env)
            verify == DispatchQuery(<<c>>, loaded.flags)
            out == verifyFlags(got.heap, verify, {thrower})
            t1 == <<Event("get", Undef)>>
            t2 == Append(t1, Event("parse", parsed))
            t3 == t2 \o loaded.trace
            t4 == Append(t3, Event("verify", loaded.flags))
            t5 == Append(t4, Event("return", loaded.flags))
        IN  IF got.err.kind # "none"
            THEN /\ heap' = got.heap
                 /\ last' = Traced(Call("initializeFlags", query, <<>>, got.err, NewObject,
                                        <<>>), t1)
            ELSE IF ~cwdExists
            THEN /\ heap' = got.heap
                 /\ last' = Traced(Call("initializeFlags", query, <<>>,
                                        Error("NonFatalError"), got.result, <<>>), t2)
            ELSE IF loaded.err.kind # "none"
            THEN /\ heap' = got.heap
                 /\ last' = Traced(Call("initializeFlags", query, <<>>, loaded.err,
                                        got.result, <<>>), t3)
            ELSE /\ heap' = out.heap
                 /\ last' = Traced(Call("initializeFlags", verify, <<>>, out.err,
                                        got.result, out.calls),
                                   IF out.err.kind # "none" THEN t4 ELSE t5)
    /\ UNCHANGED <<names, registered, mutations, dispatched>>

Register == AddFlags \/ AddFlagsMalformed \/ Return

Next == AddFlags \/ AddFlagsMalformed \/ GetFlags \/ VerifyFlags \/ Return

NextCaller == Next \/ CallerAddsFlag \/ CallerDeletesFlag \/ CallerChangesAlias

NextDispatch == AddFlags \/ Return \/ LoadDynamicFlags \/ InitializeFlags

NextReader == Next \/ ReaderAddsKey \/ ReaderDeletesKey \/ ReaderReplacesField

NextLifecycle == AddFlags \/ DispatchGetFlags \/ DispatchVerifyFlags \/ Return

\* Registration only: every call is an addFlags call.
SpecRegister == Init /\ [][Register]_vars

\* The registry's three operations, called in any order.
Spec == Init /\ [][Next]_vars

\* The same, with callers that change the flags objects they passed in.
SpecCaller == Init /\ [][NextCaller]_vars

\* Plugins register their flags and the dispatcher loads and verifies them.
SpecDispatch == Init /\ [][NextDispatch]_vars

\* Registration only, with flag names that Object.prototype defines.
SpecInherited == InitInherited /\ [][Register]_vars

\* The three operations, with callers that change what getFlags returned.
SpecReader == Init /\ [][NextReader]_vars

\* Plugins register and commands are dispatched in any order; the run
\* records whether a getFlags or verifyFlags call has been made.
SpecLifecycle == Init /\ [][NextLifecycle]_vars

(***************************************************************************)
(* What the registry holds, as the handlers read it:                       *)
(* this._database[c], its plugin names, and each plugin's flags.           *)
(***************************************************************************)
PluginsOf(c) == OrEmpty(Get(heap, Ref(Database), c))

PluginNamesOf(c) == SeqRange(OwnKeys(heap, PluginsOf(c)))

FlagsOf(c, p) ==
    LET e == Get(heap, PluginsOf(c), p)
    IN  IF Nullish(e) THEN Undef ELSE Get(heap, e, "flags")

FlagNamesOf(c, p) ==
    IF Nullish(FlagsOf(c, p)) THEN {} ELSE SeqRange(OwnKeys(heap, FlagsOf(c, p)))

AliasOf(c, p, f) ==
    LET flag == Get(heap, FlagsOf(c, p), f)
    IN  IF Nullish(flag) THEN Undef ELSE Get(heap, flag, "char")

\* The flags stored under command c, as <<plugin, flag>> pairs.
StoredFlags(c) ==
    UNION { { <<p, f>> : f \in FlagNamesOf(c, p) } : p \in PluginNamesOf(c) }

LitNames(lit) == { lit[i].name : i \in 1..Len(lit) }

\* The last call was addFlags with a well-formed entry: strings, a flags
\* mapping, and verify absent or a function.
WellFormedAdd ==
    /\ last.op = "addFlags"
    /\ last.arg.t = "object"
    /\ last.arg.command.t = "string"
    /\ last.arg.plugin.t = "string"
    /\ last.arg.flags.t = "object" /\ last.arg.flags.n # 0
    /\ last.arg.verify.t \in {"undefined", "null", "function"}

Failed == last.err.kind # "none"

\* The registrations that had succeeded before the last call was made.
Earlier ==
    IF last.op = "addFlags" /\ ~Failed
    THEN SubSeq(registered, 1, Len(registered) - 1)
    ELSE registered

\* No flag name is held by the entries of two plugins enumerated under one
\* command (the entries Object.keys lists, which the handlers walk).
StoredNamesDisjoint ==
    \A c \in Names.commands :
        \A p, q \in PluginNamesOf(c) :
            p # q => FlagNamesOf(c, p) \cap FlagNamesOf(c, q) = {}

\* The flag names held by the flags object that registration i stored.
NamesOfRegistration(i) == SeqRange(OwnKeys(heap, Ref(registered[i].flags)))

(***************************************************************************)
(* C1: in every state reached by addFlags calls, successful or failed, no  *)
(* flag name is defined by the contributions that two different plugins    *)
(* registered under one command.                                           *)
(***************************************************************************)
C1_NoSharedFlagName ==
    \A i, j \in 1..Len(registered) :
        (/\ registered[i].command = registered[j].command
         /\ registered[i].plugin # registered[j].plugin)
        => NamesOfRegistration(i) \cap NamesOfRegistration(j) = {}

(***************************************************************************)
(* C2: in every state reached by addFlags calls, no non-empty alias (char) *)
(* is carried by two flags stored under one command, whichever plugins     *)
(* contributed them.                                                       *)
(***************************************************************************)
C2_NoSharedAlias ==
    \A c \in Names.commands :
        \A x, y \in StoredFlags(c) :
            LET a == AliasOf(c, x[1], x[2])
            IN  (x # y /\ a.t = "string" /\ a.s # "") => AliasOf(c, y[1], y[2]) # a

(***************************************************************************)
(* C3: an addFlags call that fails, for whatever reason, leaves the        *)
(* registry as it was: no command entry, plugin entry or flag is added,    *)
(* and getFlags answers for every command as before the call.              *)
(***************************************************************************)
C3_FailedAddChangesNothing ==
    [][ (last'.op = "addFlags" /\ last'.err.kind # "none")
        => /\ heap' = heap
           /\ registered' = registered
           /\ \A c \in Names.commands :
                 getFlags(heap', Entry(Str(c), Undef, Undef, Undef))
                 = getFlags(heap, Entry(Str(c), Undef, Undef, Undef)) ]_vars

\* A call has just been rejected for a conflict with a stored contribution.
C3_Witness ==
    /\ WellFormedAdd
    /\ last.err.kind = "conflicts"
    /\ Len(registered) >= 1

(***************************************************************************)
(* C4: once addFlags has succeeded for (command, plugin), every later      *)
(* addFlags call for that pair fails with the duplicate-plugin error,      *)
(* whatever its flags, and the stored contribution is not overwritten.     *)
(***************************************************************************)
C4_SecondRegistrationRejected ==
    (/\ WellFormedAdd
     /\ \E i \in 1..Len(Earlier) :
           /\ Earlier[i].command = last.arg.command.s
           /\ Earlier[i].plugin = last.arg.plugin.s)
    => /\ last.err.kind = "alreadyAdded"
       /\ \A i \in 1..Len(registered) :
             (/\ registered[i].command = last.arg.command.s
              /\ registered[i].plugin = last.arg.plugin.s)
             => FlagsOf(registered[i].command, registered[i].plugin)
                = Ref(registered[i].flags)

\* The plugin of the last call had no registration for its command.
NewPlugin ==
    \A i \in 1..Len(Earlier) :
        ~(/\ Earlier[i].command = last.arg.command.s
          /\ Earlier[i].plugin = last.arg.plugin.s)

(***************************************************************************)
(* C5: an addFlags call by a plugin p (not yet registered for the command) *)
(* whose flags contain a name that another plugin q registered for the     *)
(* same command fails with the conflict error, and the error names the     *)
(* flag, p and q.                                                          *)
(***************************************************************************)
C5_FlagNameConflictReported ==
    (WellFormedAdd /\ NewPlugin)
    => \A i \in 1..Len(Earlier), j \in 1..Len(last.lit) :
          (/\ Earlier[i].command = last.arg.command.s
           /\ Earlier[i].plugin # last.arg.plugin.s
           /\ last.lit[j].name \in LitNames(Earlier[i].lit))
          => /\ last.err.kind = "conflicts"
             /\ FlagLine(last.lit[j].name, last.arg.plugin.s, Earlier[i].plugin,
                         last.arg.command.s) \in SeqRange(last.err.conflicts)

(***************************************************************************)
(* C6: an addFlags call by a plugin p (not yet registered for the command) *)
(* with a flag whose non-empty alias is the alias of a flag that another   *)
(* plugin q registered for the same command fails with the conflict error, *)
(* and the error names the alias, the new flag and p, the existing flag    *)
(* and q.                                                                  *)
(***************************************************************************)
C6_AliasConflictReported ==
    (WellFormedAdd /\ NewPlugin)
    => \A i \in 1..Len(Earlier), j \in 1..Len(last.lit) :
          \A k \in 1..Len(Earlier[i].lit) :
              (/\ Earlier[i].command = last.arg.command.s
               /\ Earlier[i].plugin # last.arg.plugin.s
               /\ last.lit[j].char.t = "string" /\ last.lit[j].char.s # ""
               /\ Earlier[i].lit[k].char = last.lit[j].char)
              => /\ last.err.kind = "conflicts"
                 /\ AliasLine(last.lit[j].char.s, last.lit[j].name, last.arg.plugin.s,
                              Earlier[i].lit[k].name, Earlier[i].plugin,
                              last.arg.command.s) \in SeqRange(last.err.conflicts)

(***************************************************************************)
(* C7: one addFlags call whose flags hold two names with the same          *)
(* non-empty alias fails, even when the command has no other contribution; *)
(* no stored contribution holds two flags with the same alias.             *)
(***************************************************************************)
C7_SameCallAliasRejected ==
    /\ (/\ WellFormedAdd
        /\ \E i, j \in 1..Len(last.lit) :
              /\ i # j
              /\ last.lit[i].char.t = "string" /\ last.lit[i].char.s # ""
              /\ last.lit[i].char = last.lit[j].char)
       => Failed
    /\ \A c \in Names.commands, p \in Names.plugins :
          \A f, g \in FlagNamesOf(c, p) :
              (f # g /\ AliasOf(c, p, f).t = "string" /\ AliasOf(c, p, f).s # "")
              => AliasOf(c, p, g) # AliasOf(c, p, f)

\* The flags object i read back as the literal that would build it.
AsLiteral(i) ==
    LET ks == OwnKeys(heap, Ref(i))
    IN  [j \in 1..Len(ks) |->
            [name |-> ks[j], char |-> Get(heap, heap[i].vals[ks[j]], "char")]]

(***************************************************************************)
(* C8: after a successful addFlags, the caller changing the flags mapping  *)
(* it passed (adding or deleting a flag, changing an alias) does not       *)
(* change the registry: the flags stored for each registration stay those  *)
(* of its call, and no flag name is shared between plugins of a command.   *)
(***************************************************************************)
C8_CallerCannotChangeRegistry ==
    /\ \A i \in 1..Len(registered) : AsLiteral(registered[i].flags) = registered[i].lit
    /\ StoredNamesDisjoint

\* The successful registrations for command c.
RegisteredFor(c) == { i \in 1..Len(registered) : registered[i].command = c }

\* The last call was getFlags with a well-formed query.
WellFormedGet == last.op = "getFlags" /\ last.arg.t = "object" /\ last.arg.command.t = "string"

(***************************************************************************)
(* C9: getFlags for a command returns a mapping whose keys are exactly the *)
(* flag names of the contributions registered successfully for it, each    *)
(* key with the flag object its plugin supplied; flags of failed calls     *)
(* never appear.                                                           *)
(***************************************************************************)
C9_GetFlagsIsUnion ==
    WellFormedGet
    => /\ ~Failed
       /\ DOMAIN last.result.vals
          = UNION { LitNames(registered[i].lit) : i \in RegisteredFor(last.arg.command.s) }
       /\ \A i \in RegisteredFor(last.arg.command.s) :
             \A f \in LitNames(registered[i].lit) :
                 /\ f \in DOMAIN last.result.vals
                 /\ last.result.vals[f] = heap[registered[i].flags].vals[f]

(***************************************************************************)
(* C10: getFlags for a command without a successful registration returns   *)
(* an empty mapping and raises no error, for every command string.         *)
(***************************************************************************)
C10_UnknownCommandIsEmpty ==
    (WellFormedGet /\ RegisteredFor(last.arg.command.s) = {})
    => /\ ~Failed
       /\ last.result.keys = <<>>

\* The query { command: c } of getFlags, and { command: c, flags } of verifyFlags.
GetQuery(c) == Entry(Str(c), Undef, Undef, Undef)

VerifyQuery(c) == Entry(Str(c), Undef, Parsed("parsed"), Undef)

(***************************************************************************)
(* C11: for distinct commands c1 and c2, an addFlags call for c1 changes   *)
(* neither what getFlags returns for c2 nor the verify callbacks that      *)
(* verifyFlags runs for c2.                                                *)
(***************************************************************************)
C11_OtherCommandsUntouched ==
    [][ (last'.op = "addFlags" /\ last'.arg.t = "object" /\ last'.arg.command.t = "string")
        => \A c2 \in Names.commands \ {last'.arg.command.s} :
              /\ getFlags(heap', GetQuery(c2)).err = getFlags(heap, GetQuery(c2)).err
              /\ getFlags(heap', GetQuery(c2)).result = getFlags(heap, GetQuery(c2)).result
              /\ verifyFlags(heap', VerifyQuery(c2), {}).err
                 = verifyFlags(heap, VerifyQuery(c2), {}).err
              /\ verifyFlags(heap', VerifyQuery(c2), {}).calls
                 = verifyFlags(heap, VerifyQuery(c2), {}).calls ]_vars

\* The last call was verifyFlags with a well-formed query.
WellFormedVerify ==
    /\ last.op = "verifyFlags"
    /\ last.arg.t = "object"
    /\ last.arg.command.t = "string"
    /\ last.arg.flags.t = "object"

\* The verify callbacks registered for command c, in registration order.
VerifiersOf(c) ==
    LET rs == SelectSeq(registered, LAMBDA r : r.command = c /\ r.verify.t = "function")
    IN  [i \in 1..Len(rs) |-> rs[i].verify.n]

\* The callbacks the last verifyFlags call invoked, in the order of the calls.
Invoked == [i \in 1..Len(last.calls) |-> last.calls[i].fn]

\* No registration used the name '__proto__'.
PlainNames ==
    \A i \in 1..Len(registered) :
        registered[i].command # ProtoKey /\ registered[i].plugin # ProtoKey

(***************************************************************************)
(* C12: when no callback throws, a verifyFlags call for a command invokes  *)
(* the verify callback of every contribution of that command that has one, *)
(* exactly once, in the order the contributions were registered, whatever  *)
(* the plugin names (checked here where no name is '__proto__').           *)
(***************************************************************************)
C12_VerifyInRegistrationOrder ==
    (WellFormedVerify /\ PlainNames /\ last.err.kind # "callback")
    => /\ ~Failed
       /\ Invoked = VerifiersOf(last.arg.command.s)

(***************************************************************************)
(* C13: a verify callback that throws ends the verifyFlags pass: its error *)
(* is the error the caller of verifyFlags gets, and no callback of a later *)
(* contribution is invoked.                                                *)
(***************************************************************************)
C13_ThrowEndsThePass ==
    last.op = "verifyFlags"
    => /\ \A i \in 1..Len(last.calls) :
             last.calls[i].threw
             => /\ i = Len(last.calls)
                /\ last.err = [kind |-> "callback", conflicts |-> <<>>,
                               by |-> last.calls[i].fn]
       /\ last.err.kind = "callback"
          => /\ last.calls # <<>>
             /\ last.calls[Len(last.calls)].threw

\* The first of two callbacks of a command threw and the second was not run.
C13_Witness ==
    /\ WellFormedVerify
    /\ last.err.kind = "callback"
    /\ Len(last.calls) = 1
    /\ Len(VerifiersOf(last.arg.command.s)) = 2

(***************************************************************************)
(* C14: when an addFlags call collides with stored contributions on        *)
(* several flag names or aliases, the one error raised lists every         *)
(* colliding pair: each new flag name with each other plugin that holds    *)
(* it, and each new alias with each other plugin and flag that hold it.    *)
(***************************************************************************)
C14_EveryCollisionListed ==
    (WellFormedAdd /\ NewPlugin /\ last.err.kind = "conflicts")
    => \A i \in 1..Len(Earlier), j \in 1..Len(last.lit) :
          (/\ Earlier[i].command = last.arg.command.s
           /\ Earlier[i].plugin # last.arg.plugin.s)
          => /\ last.lit[j].name \in LitNames(Earlier[i].lit)
                => FlagLine(last.lit[j].name, last.arg.plugin.s, Earlier[i].plugin,
                            last.arg.command.s) \in SeqRange(last.err.conflicts)
             /\ \A k \in 1..Len(Earlier[i].lit) :
                   (/\ last.lit[j].char.t = "string" /\ last.lit[j].char.s # ""
                    /\ Earlier[i].lit[k].char = last.lit[j].char)
                   => AliasLine(last.lit[j].char.s, last.lit[j].name, last.arg.plugin.s,
                                Earlier[i].lit[k].name, Earlier[i].plugin,
                                last.arg.command.s) \in SeqRange(last.err.conflicts)

(***************************************************************************)
(* C15: getFlags and verifyFlags never change the registry: the stored     *)
(* commands, plugins, flags and verify callbacks are the same before and   *)
(* after either call, whether it returns or throws, so getFlags answers    *)
(* the same for every command after the call as before it.                 *)
(***************************************************************************)
C15_QueriesChangeNothing ==
    [][ last'.op \in {"getFlags", "verifyFlags"}
        => /\ heap' = heap
           /\ registered' = registered
           /\ \A c \in Names.commands :
                 getFlags(heap', GetQuery(c)) = getFlags(heap, GetQuery(c)) ]_vars

\* getFlags has just merged the flags of two plugins of a command.
C15_Witness ==
    /\ WellFormedGet
    /\ ~Failed
    /\ Len(last.result.keys) >= 2
    /\ Cardinality(RegisteredFor(last.arg.command.s)) = 2

\* The last addFlags call was made for a (command, plugin) pair that an
\* earlier call registered.
DuplicateCall ==
    \E i \in 1..Len(Earlier) :
        /\ Earlier[i].command = last.arg.command.s
        /\ Earlier[i].plugin = last.arg.plugin.s

\* A flag of the last addFlags call has the name or the non-empty alias of a
\* flag that another plugin registered for the command.
CollidingCall ==
    \E i \in 1..Len(Earlier), j \in 1..Len(last.lit) :
        /\ Earlier[i].command = last.arg.command.s
        /\ Earlier[i].plugin # last.arg.plugin.s
        /\ \/ last.lit[j].name \in LitNames(Earlier[i].lit)
           \/ /\ last.lit[j].char.t = "string" /\ last.lit[j].char.s # ""
              /\ \E k \in 1..Len(Earlier[i].lit) : Earlier[i].lit[k].char = last.lit[j].char

\* The first check the last addFlags call violates, in the order command,
\* plugin, flags, verify, duplicate plugin, conflicts; named by the error of
\* the check.
FirstViolation ==
    IF last.arg.command.t # "string" THEN "commandNotString"
    ELSE IF last.arg.plugin.t # "string" THEN "pluginNotString"
    ELSE IF last.arg.flags.t # "object" THEN "flagsNotObject"
    ELSE IF last.arg.verify.t \notin {"undefined", "null", "function"} THEN "verifyNotFunction"
    ELSE IF DuplicateCall THEN "alreadyAdded"
    ELSE IF CollidingCall THEN "conflicts"
    ELSE "none"

\* The checks the last addFlags call violates, named by their errors.
Violations ==
    (IF last.arg.command.t # "string" THEN {"commandNotString"} ELSE {})
    \cup (IF last.arg.plugin.t # "string" THEN {"pluginNotString"} ELSE {})
    \cup (IF last.arg.flags.t # "object" THEN {"flagsNotObject"} ELSE {})
    \cup (IF last.arg.verify.t \notin {"undefined", "null", "function"}
          THEN {"verifyNotFunction"} ELSE {})
    \cup (IF last.arg.command.t = "string" /\ last.arg.plugin.t = "string"
          THEN (IF DuplicateCall THEN {"alreadyAdded"} ELSE {})
               \cup (IF CollidingCall THEN {"conflicts"} ELSE {})
          ELSE {})

\* The names of the last call, where strings, are neither empty nor '__proto__'.
PlainCall ==
    /\ last.arg.command.t = "string" => last.arg.command.s \notin {"", ProtoKey}
    /\ last.arg.plugin.t = "string" => last.arg.plugin.s \notin {"", ProtoKey}

(***************************************************************************)
(* C16: an addFlags call that violates several preconditions raises the    *)
(* error of the first violated check in the order: command, plugin name,   *)
(* flags, verify, plugin already registered for the command, conflicts     *)
(* (checked here for names that are neither empty nor '__proto__').        *)
(***************************************************************************)
C16_FirstViolationReported ==
    (/\ last.op = "addFlags"
     /\ last.arg.t \in {"object", "undefined"}
     /\ PlainNames /\ PlainCall
     /\ Cardinality(Violations) >= 2)
    => last.err.kind = FirstViolation

\* A command or plugin name that is not a string, or is the empty string.
InvalidName(v) == v.t # "string" \/ v.s = ""

(***************************************************************************)
(* C17: an addFlags call whose command or plugin name is not a string, or  *)
(* is the empty string, fails with the error of that argument and stores   *)
(* nothing; no contribution is stored under an empty command or plugin     *)
(* name.                                                                   *)
(***************************************************************************)
C17_EmptyNamesRejected ==
    /\ (/\ last.op = "addFlags"
        /\ last.arg.t = "object"
        /\ InvalidName(last.arg.command) \/ InvalidName(last.arg.plugin))
       => last.err.kind \in {"commandNotString", "pluginNotString"}
    /\ \A i \in 1..Len(registered) :
          registered[i].command # "" /\ registered[i].plugin # ""
    /\ \A c \in Names.commands : "" \notin PluginNamesOf(c)
    /\ ~HasOwn(heap, Database, "")

\* The value is an array that is on the heap.
IsArray(v) == v.t = "object" /\ v.n \in 1..Len(heap) /\ heap[v.n].proto = ArrayPrototype

(***************************************************************************)
(* C18: an addFlags call whose flags argument is not a mapping (absent,    *)
(* null, a string, a number, a function or an array) fails with the error  *)
(* of the flags argument, before any conflict check, and stores nothing.   *)
(***************************************************************************)
C18_FlagsMustBeMapping ==
    /\ (/\ last.op = "addFlags"
        /\ last.arg.t = "object"
        /\ last.arg.command.t = "string"
        /\ last.arg.plugin.t = "string"
        /\ last.arg.flags.t # "object" \/ IsArray(last.arg.flags))
       => last.err.kind = "flagsNotObject"
    /\ \A i \in 1..Len(registered) : ~IsArray(Ref(registered[i].flags))

\* The errors of the argument checks of addFlags.
ArgumentErrors ==
    {"newEntryNotObject", "commandNotString", "pluginNotString", "flagsNotObject",
     "verifyNotFunction"}

\* plugins[pluginName].verify as stored in heap h for command c and plugin p.
StoredVerify(h, c, p) ==
    Get(h, Get(h, OrEmpty(Get(h, Ref(Database), c)), p), "verify")

C20_DispatchAccepted ==
    (/\ last.op \in {"loadDynamicFlags", "initializeFlags"}
     /\ RegisteredFor(last.arg.commands[1]) # {})
    => /\ last.err.kind \notin {"queryNotObject", "commandNotString", "flagsNotObject"}
       /\ last.err.kind \in {"none", "callback"}
          => DOMAIN last.result.vals
             = UNION { LitNames(registered[i].lit) :
                         i \in RegisteredFor(last.arg.commands[1]) }

\* The events of the last dispatcher run of a kind.
EventsOf(ev) == {i \in DOMAIN last.trace : last.trace[i].ev = ev}

\* C21: every run of DynamicCommand._initializeFlags sends the get request
\* first, runs every parse after it and before the verify request, sends the
\* verify request exactly once with the flags of the last parse, and returns
\* the flags only when the verify request did not raise.
C21_DispatchOrder ==
    last.op = "initializeFlags" =>
        /\ EventsOf("get") = {1}
        /\ Cardinality(EventsOf("verify")) = 1
        /\ EventsOf("parse") # {}
        /\ \A v \in EventsOf("verify") :
            /\ \A i \in EventsOf("parse") : 1 < i /\ i < v
            /\ \E i \in EventsOf("parse") :
                /\ \A j \in EventsOf("parse") : j <= i
                /\ last.trace[v].flags = last.trace[i].flags
        /\ last.err.kind # "none" => EventsOf("return") = {}

\* Registration i is held by the registry: this._database[command][plugin]
\* is an entry with the flags object of the call, holding the flag names and
\* aliases of the call, and with its verify callback (null for none).
Held(i) ==
    LET r == registered[i]
    IN  /\ FlagsOf(r.command, r.plugin) = Ref(r.flags)
        /\ AsLiteral(r.flags) = r.lit
        /\ StoredVerify(heap, r.command, r.plugin)
           = (IF r.verify.t = "function" THEN r.verify ELSE Null)

\* C22: the registry only grows: a contribution that an addFlags call
\* stored for (command, plugin) is held with the same flag names, aliases
\* and verify callback in every later state, whatever addFlags, getFlags
\* and verifyFlags calls follow.
C22_RegistryOnlyGrows == \A i \in 1..Len(registered) : Held(i)

\* The flags object v of heap h read back as the literal that would build it.
LiteralIn(h, v) ==
    LET ks == OwnKeys(h, v)
    IN  [j \in 1..Len(ks) |-> [name |-> ks[j], char |-> Get(h, Get(h, v, ks[j]), "char")]]

\* The contribution of (c, p) as the handlers read it from heap h:
\* this._database[c][p], its flags with their names and aliases, its verify.
ContributionIn(h, c, p) ==
    LET e == Get(h, OrEmpty(Get(h, Ref(Database), c)), p)
    IN  IF Nullish(e) THEN [entry |-> Undef, flags |-> Undef, lit |-> <<>>, verify |-> Undef]
        ELSE [entry |-> e, flags |-> Get(h, e, "flags"),
              lit |-> IF Nullish(Get(h, e, "flags")) THEN <<>>
                      ELSE LiteralIn(h, Get(h, e, "flags")),
              verify |-> Get(h, e, "verify")]

\* C23: a successful addFlags call for (c, p) changes exactly one entry:
\* afterwards this._database[c][p] holds the given flags and the given
\* verify callback (null for none), and the contribution of every other
\* (command, plugin) pair is what it was before the call.
C23_OneEntryChanged ==
    [][ (last'.op = "addFlags" /\ last'.err.kind = "none")
        => LET c == last'.arg.command.s
               p == last'.arg.plugin.s
               new == ContributionIn(heap', c, p)
           IN  /\ new.flags = last'.arg.flags
               /\ new.lit = last'.lit
               /\ new.verify = (IF last'.arg.verify.t = "function" THEN last'.arg.verify
                                ELSE Null)
               /\ \A c2 \in Names.commands, p2 \in Names.plugins :
                      <<c2, p2>> # <<c, p>>
                      => ContributionIn(heap', c2, p2) = ContributionIn(heap, c2, p2) ]_vars

\* The lines of the conflict error of the last call that report an alias.
AliasLines == {l \in SeqRange(last.err.conflicts) : l.kind = "alias"}

\* The flag has no alias: `char` is absent or the empty string.
NoAlias(char) == char = Undef \/ char = Str("")

\* C24: flags without an alias, or with the empty string as alias, take no
\* part in alias conflicts: every alias line of a conflict error names a
\* non-empty alias that both the new flag and the stored flag carry, and an
\* addFlags call whose flags all lack an alias reports no alias conflict,
\* whatever aliases or empty aliases are stored.
C24_NoAliasNoConflict ==
    last.op = "addFlags"
    => /\ \A l \in AliasLines :
            /\ l.char # ""
            /\ \E j \in 1..Len(last.lit) :
                   last.lit[j].name = l.flag /\ last.lit[j].char = Str(l.char)
            /\ AliasOf(l.command, l.owner, l.ownerFlag) = Str(l.char)
       /\ (\A j \in 1..Len(last.lit) : NoAlias(last.lit[j].char)) => AliasLines = {}

\* A second plugin has stored a flag with the empty alias under a command
\* where another plugin holds a flag with the empty alias.
C24_Witness ==
    /\ WellFormedAdd
    /\ ~Failed
    /\ Len(registered) = 2
    /\ registered[1].command = registered[2].command
    /\ registered[1].plugin # registered[2].plugin
    /\ \A i \in 1..2 : \E j \in 1..Len(registered[i].lit) :
           registered[i].lit[j].char = Str("")

\* No plugin registered under the name '__proto__'.
PlainPlugins == \A i \in 1..Len(registered) : registered[i].plugin # ProtoKey

\* C25: a verifyFlags call for a command with no registration, or whose
\* contributions all lack a verify callback, invokes nothing and returns
\* normally; contributions without a callback do not keep the callbacks of
\* the others from being invoked (checked here where no plugin is named
\* '__proto__'); each callback receives the flags passed to verifyFlags.
C25_NothingToVerify ==
    WellFormedVerify
    => /\ VerifiersOf(last.arg.command.s) = <<>>
          => (~Failed /\ last.calls = <<>>)
       /\ (PlainPlugins /\ last.err.kind # "callback")
          => /\ Len(Invoked) = Len(VerifiersOf(last.arg.command.s))
             /\ SeqRange(Invoked) = SeqRange(VerifiersOf(last.arg.command.s))
       /\ \A i \in 1..Len(last.calls) : last.calls[i].flags = last.arg.flags

\* C26: once a getFlags or verifyFlags call has been made (and has returned
\* normally), the registry does not change: no addFlags call made afterwards
\* alters what getFlags returns or which callbacks verifyFlags invokes, for
\* any command.
C26_ReadOnlyAfterDispatch ==
    [][ (dispatched /\ last'.op = "addFlags")
        => \A c \in Names.commands :
              /\ getFlags(heap', GetQuery(c)).err = getFlags(heap, GetQuery(c)).err
              /\ getFlags(heap', GetQuery(c)).result = getFlags(heap, GetQuery(c)).result
              /\ verifyFlags(heap', VerifyQuery(c), {}).err
                 = verifyFlags(heap, VerifyQuery(c), {}).err
              /\ verifyFlags(heap', VerifyQuery(c), {}).calls
                 = verifyFlags(heap, VerifyQuery(c), {}).calls ]_vars

\* Two flag mappings collide: they share a flag name or a non-empty alias.
Collide(litX, litY) ==
    \E i \in 1..Len(litX), j \in 1..Len(litY) :
        \/ litX[i].name = litY[j].name
        \/ /\ litX[i].char.t = "string" /\ litX[i].char.s # ""
           /\ litX[i].char = litY[j].char

\* Two contributions to command c, by plugins p and q, registered from heap
\* h in both orders: x1, x2 are the calls of "p then q", y1, y2 those of
\* "q then p"; a second call is made when the first one returned normally.
BothOrders(h, c, p, q, litX, litY) ==
    LET hX == AllocFlags(h, litX)
        hXY == AllocFlags(hX, litY)
        X == Entry(Str(c), Str(p), Ref(Len(hX)), Undef)
        Y == Entry(Str(c), Str(q), Ref(Len(hXY)), Undef)
        x1 == addFlags(hXY, X)
        y1 == addFlags(hXY, Y)
    IN  [x1 |-> x1.err, x2 |-> addFlags(x1.heap, Y).err,
         y1 |-> y1.err, y2 |-> addFlags(y1.heap, X).err,
         xy |-> getFlags(addFlags(x1.heap, Y).heap, GetQuery(c)),
         yx |-> getFlags(addFlags(y1.heap, X).heap, GetQuery(c))]

\* C27: registration is order-independent.  For two contributions to one
\* command by different plugins, each of which the registry accepts: when
\* they do not collide, both orders succeed and getFlags returns the same
\* mapping after either; when the second call of one order is rejected as
\* a conflict, so is the second call of the other order.
C27_OrderIndependent ==
    last = Idle
    => \A c \in Names.commands, p, q \in Names.plugins :
         \A litX, litY \in Names.literals :
            LET o == BothOrders(heap, c, p, q, litX, litY)
            IN  (p # q /\ o.x1.kind = "none" /\ o.y1.kind = "none")
                => /\ ~Collide(litX, litY)
                      => /\ o.x2.kind = "none" /\ o.y2.kind = "none"
                         /\ o.xy.err = o.yx.err
                         /\ o.xy.result.vals = o.yx.result.vals
                   /\ o.x2.kind = "conflicts" => o.y2.kind = "conflicts"

\* The flags stored for registration i are those of its call: the names of
\* the mapping, and each flag object as the caller built it.
AsRegistered(i) ==
    LET r == registered[i]
    IN  /\ AsLiteral(r.flags) = r.lit
        /\ \A j \in 1..Len(r.lit) :
               heap[heap[r.flags].vals[r.lit[j].name].n] = FlagObject(r.lit[j].char)

\* C28: a caller changing the value that getFlags returned (adding or
\* removing keys of the mapping, replacing a field of a flag in it) does not
\* change the registry: every registration keeps the flags of its call, so
\* that a later getFlags returns them as they were registered.
C28_ResultIsACopy == \A i \in 1..Len(registered) : AsRegistered(i)

\* A handler with no registration accepts the last addFlags call.
AcceptedWhenAlone ==
    LET h == AllocFlags(FreshHandler, last.lit)
    IN  addFlags(h, [last.arg EXCEPT !.flags = Ref(Len(h))]).err.kind = "none"

\* An earlier registration under the command of the last addFlags call has
\* its plugin name, one of its flag names or one of its non-empty aliases.
CollidesInCommand ==
    \E i \in 1..Len(Earlier) :
        /\ Earlier[i].command = last.arg.command.s
        /\ \/ Earlier[i].plugin = last.arg.plugin.s
           \/ Collide(last.lit, Earlier[i].lit)
           \/ Collide(Earlier[i].lit, last.lit)

\* C29: the duplicate and conflict checks are scoped to one command: an
\* addFlags call that a handler without registrations accepts is rejected
\* only for a contribution registered under its own command; the same
\* plugin, flag names and aliases registered under other commands do not
\* make it fail.
C29_ScopedToCommand == (WellFormedAdd /\ AcceptedWhenAlone /\ ~CollidesInCommand) => ~Failed

\* C30: no spurious rejection: an addFlags call with a string command, a
\* string plugin not yet registered for the command, a flags mapping and
\* an absent or callable verify succeeds when none of its flag names and
\* none of its non-empty aliases occurs in a contribution stored for the
\* command, whatever the flag, plugin and command names are.
C30_NoSpuriousRejection == (WellFormedAdd /\ ~CollidesInCommand) => ~Failed

====
